---- MODULE Spec2Model ----
(***************************************************************************)
(* Model of src/src/App.tsx (PureCut background remover).                  *)
(*                                                                         *)
(* The component keeps four pieces of React state (sourceImage,            *)
(* resultImage, isProcessing, error).  Two kinds of asynchronous work can  *)
(* be outstanding: FileReader loads started by processFile and model calls *)
(* started by removeBackground.  Every handler runs to completion on the   *)
(* single JavaScript thread, so each handler, each reader.onload callback  *)
(* and each continuation after the await is one atomic action.             *)
(*                                                                         *)
(* Spec     : the handlers as the rendered page lets the user reach them   *)
(*            (an element that is not rendered cannot be clicked).         *)
(* SpecCore : the same handlers invoked directly in any state, i.e. the    *)
(*            inbound interface ingestFile / startRemoval / reset.         *)
(* SpecDirect : Spec, plus removeBackground invoked directly while no      *)
(*            image is loaded.                                             *)
(***************************************************************************)
EXTENDS Integers, Sequences, FiniteSets, TLC

VARIABLES sourceImage, resultImage, isProcessing, error, reads, requests,
          nFiles, nRequests, last

vars == <<sourceImage, resultImage, isProcessing, error, reads, requests,
          nFiles, nRequests, last>>

\* the four pieces of React state
view == <<sourceImage, resultImage, isProcessing, error>>

(***************************************************************************)
(* Bounds                                                                  *)
(***************************************************************************)
\* number of files handed to processFile in one behaviour
MaxFiles == 2
\* number of model calls issued in one behaviour
MaxRequests == 2
\* number of parts in a model reply
MaxParts == 3

(***************************************************************************)
(* Values                                                                  *)
(***************************************************************************)
\* useState<string | null>(null)
NULL == "null"
\* the value of an out-of-range index, of a missing property
Undefined == "undefined"

\* file.type as the browser reports it ("" when the type is unknown)
FileTypes == {"image/png", "image/jpeg", "text/plain", ""}
\* file contents, and what FileReader.readAsDataURL encodes them to
Bodies == {"A", "hi"}
Base64(body) == IF body = "A" THEN "QQ==" ELSE IF body = "hi" THEN "aGk=" ELSE ""
Files == [type : FileTypes, body : Bodies]
\* files?.[0] of an empty file list
NoFile == [type |-> Undefined, body |-> Undefined]

InvalidFileMessage == "Please upload a valid image file."
NoImageMessage == "Failed to generate a cutout. The model did not return an image."
FallbackMessage == "An error occurred while processing the image."
Instruction == "Remove the background from this image and return only the subject with a transparent background. Output the result as an image."
ModelName == "gemini-2.5-flash-image"

(***************************************************************************)
(* String helpers (String.prototype.startsWith, split, index)              *)
(***************************************************************************)
startsWith(s, p) == Len(s) >= Len(p) /\ SubSeq(s, 1, Len(p)) = p

RECURSIVE SplitFrom(_, _, _, _)
SplitFrom(s, sep, i, start) ==
    IF i > Len(s) THEN <<SubSeq(s, start, Len(s))>>
    ELSE IF SubSeq(s, i, i) = sep
         THEN <<SubSeq(s, start, i - 1)>> \o SplitFrom(s, sep, i + 1, i + 1)
         ELSE SplitFrom(s, sep, i + 1, start)

split(s, sep) == SplitFrom(s, sep, 1, 1)

\* a[i] with JavaScript's zero-based index
At(a, i) == IF i + 1 <= Len(a) THEN a[i + 1] ELSE Undefined

\* FileReader.readAsDataURL result
DataURL(file) == "data:" \o file.type \o ";base64," \o Base64(file.body)

(***************************************************************************)
(* The model call: request and reply shapes                                *)
(***************************************************************************)
\* const base64Data = sourceImage.split(',')[1]
base64Data(src) == At(split(src, ","), 1)
\* sourceImage.split(':')[1], without cutting at the ';' first
mimeType_NoSemicolonSplit(src) == At(split(src, ":"), 1)
\* const mimeType = sourceImage.split(';')[0].split(':')[1]
mimeType(src) == At(split(At(split(src, ";"), 0), ":"), 1)

\* the argument of genAI.models.generateContent
buildRequest(src) ==
    [model |-> ModelName,
     parts |-> << [inlineData |-> [data |-> base64Data(src), mimeType |-> mimeType(src)]],
                  [text |-> Instruction] >>]

\* parts a reply may carry: text commentary or inline image data
InlineDatas == {"UE5H", "R0lG"}
TextPart == [text |-> "Here is the cutout."]
InlinePart(d) == [inlineData |-> [data |-> d, mimeType |-> "image/png"]]
PartSet == {TextPart} \cup {InlinePart(d) : d \in InlineDatas}
PartSeqs == UNION {[1..n -> PartSet] : n \in 0..MaxParts}

\* messages of the errors generateContent rejects with ("" : no message)
ThrownMessages == {"fetch failed", ""}

\* every way the awaited call can settle
Replies ==
    {[kind |-> "throw", message |-> m] : m \in ThrownMessages}
    \cup {[kind |-> "response", candidates |-> <<>>]}
    \cup {[kind |-> "response", candidates |-> <<[content |-> [role |-> "model"]]>>]}
    \cup {[kind |-> "response", candidates |-> <<[content |-> [parts |-> ps]]>>] : ps \in PartSeqs}

\* response.candidates?.[0]?.content?.parts || []
replyParts(reply) ==
    IF Len(reply.candidates) = 0 THEN <<>>
    ELSE IF "parts" \in DOMAIN reply.candidates[1].content
         THEN reply.candidates[1].content.parts
         ELSE <<>>

\* the for loop without its break: the last part carrying inlineData wins
RECURSIVE firstInlineFrom_NoBreak(_, _)
firstInlineFrom_NoBreak(parts, i) ==
    IF i > Len(parts) THEN 0
    ELSE LET later == firstInlineFrom_NoBreak(parts, i + 1)
         IN  IF later # 0 THEN later
             ELSE IF "inlineData" \in DOMAIN parts[i] THEN i ELSE 0

\* the for loop with its break: index of the first part carrying inlineData,
\* 0 when the loop ends without one
RECURSIVE firstInlineFrom(_, _)
firstInlineFrom(parts, i) ==
    IF i > Len(parts) THEN 0
    ELSE IF "inlineData" \in DOMAIN parts[i] THEN i
    ELSE firstInlineFrom(parts, i + 1)

firstInline(parts) == firstInlineFrom(parts, 1)

\* `data:image/png;base64,${resultBase64}`
resultURL(part) == "data:image/png;base64," \o part.inlineData.data

\* err.message alone
errorMessage_NoFallback(message) == message

\* err.message || 'An error occurred while processing the image.'
errorMessage(message) == IF message = "" THEN FallbackMessage ELSE message

(***************************************************************************)
(* Initial state: the useState initial values, nothing outstanding         *)
(***************************************************************************)
Init ==
    /\ sourceImage = NULL
    /\ resultImage = NULL
    /\ isProcessing = FALSE
    /\ error = NULL
    /\ reads = {}
    /\ requests = {}
    /\ nFiles = 0
    /\ nRequests = 0
    /\ last = [op |-> "none"]

\* bookkeeping, not program state: a call in flight is marked once the state
\* it was issued for has been cleared or replaced
supersede(reqs) == {[r EXCEPT !.superseded = TRUE] : r \in reqs}

\* a read as processFile starts it; newer and cleared are bookkeeping, not
\* program state
started(n, file) ==
    [id |-> n, file |-> file, newer |-> [id |-> 0, file |-> NoFile], cleared |-> FALSE]

\* bookkeeping: the reads still pending when reset runs are marked
clear(rds) == {[x EXCEPT !.cleared = TRUE] : x \in rds}

\* bookkeeping: when the read rd completes, every pending read that was
\* started before it remembers the latest-started read that completed first
overtake(rds, rd) ==
    {IF x.id < rd.id /\ x.newer.id < rd.id
     THEN [x EXCEPT !.newer = [id |-> rd.id, file |-> rd.file]]
     ELSE x : x \in rds}

\* history, not program state: the handler that ran last, its input and the
\* React state it found
ran(name, input) == last' = [op |-> name, arg |-> input, pre |-> view]

(***************************************************************************)
(* Handlers                                                                *)
(***************************************************************************)
\* processFile without the return after setError
processFile_NoReturn(file) ==
    /\ nFiles < MaxFiles
    /\ nFiles' = nFiles + 1
    /\ ran("processFile", file)
    /\ error' = IF ~startsWith(file.type, "image/") THEN InvalidFileMessage ELSE error
    /\ reads' = reads \cup {started(nFiles + 1, file)}
    /\ UNCHANGED <<sourceImage, resultImage, isProcessing, requests, nRequests>>

processFile(file) ==
    /\ nFiles < MaxFiles
    /\ nFiles' = nFiles + 1
    /\ ran("processFile", file)
    /\ IF ~startsWith(file.type, "image/")
       THEN /\ error' = InvalidFileMessage
            /\ UNCHANGED <<sourceImage, resultImage, isProcessing, reads,
                           requests, nRequests>>
       ELSE /\ reads' = reads \cup {started(nFiles + 1, file)}
            /\ UNCHANGED <<sourceImage, resultImage, isProcessing, error,
                           requests, nRequests>>

\* reader.onload of a read started by processFile
onload(rd) ==
    /\ rd \in reads
    /\ reads' = overtake(reads \ {rd}, rd)
    /\ sourceImage' = DataURL(rd.file)
    /\ resultImage' = NULL
    /\ error' = NULL
    /\ requests' = supersede(requests)
    /\ ran("onload", rd)
    /\ UNCHANGED <<isProcessing, nFiles, nRequests>>

\* removeBackground without the early return: with no source image the first
\* split throws inside the try block, the catch block records the TypeError
\* and finally clears isProcessing
removeBackground_NoSourceCheck ==
    IF sourceImage = NULL
    THEN /\ ran("removeBackground", NULL)
         /\ error' = "Cannot read properties of null (reading 'split')"
         /\ isProcessing' = FALSE
         /\ UNCHANGED <<sourceImage, resultImage, reads, requests, nFiles, nRequests>>
    ELSE /\ nRequests < MaxRequests
         /\ ran("removeBackground", NULL)
         /\ nRequests' = nRequests + 1
         /\ isProcessing' = TRUE
         /\ error' = NULL
         /\ requests' = requests \cup
                {[id |-> nRequests + 1, src |-> sourceImage,
                  request |-> buildRequest(sourceImage), superseded |-> FALSE]}
         /\ UNCHANGED <<sourceImage, resultImage, reads, nFiles>>

\* removeBackground up to the await
removeBackground ==
    IF sourceImage = NULL
    THEN /\ ran("removeBackground", NULL)
         /\ UNCHANGED <<view, reads, requests, nFiles, nRequests>>
    ELSE /\ nRequests < MaxRequests
         /\ ran("removeBackground", NULL)
         /\ nRequests' = nRequests + 1
         /\ isProcessing' = TRUE
         /\ error' = NULL
         /\ requests' = requests \cup
                {[id |-> nRequests + 1, src |-> sourceImage,
                  request |-> buildRequest(sourceImage), superseded |-> FALSE]}
         /\ UNCHANGED <<sourceImage, resultImage, reads, nFiles>>

\* the continuation with setIsProcessing(false) at the end of the try block
\* instead of in finally
settle_NoFinally(r, reply) ==
    /\ r \in requests
    /\ requests' = requests \ {r}
    /\ ran("settle", [call |-> r, reply |-> reply])
    /\ IF reply.kind = "throw"
       THEN /\ error' = errorMessage(reply.message)
            /\ UNCHANGED <<resultImage, isProcessing>>
       ELSE LET parts == replyParts(reply)
                i == firstInline(parts)
            IN  IF i # 0
                THEN /\ resultImage' = resultURL(parts[i])
                     /\ isProcessing' = FALSE
                     /\ UNCHANGED error
                ELSE /\ error' = errorMessage(NoImageMessage)
                     /\ UNCHANGED <<resultImage, isProcessing>>
    /\ UNCHANGED <<sourceImage, reads, nFiles, nRequests>>

\* removeBackground after the await: the call r settles with reply
settle(r, reply) ==
    /\ r \in requests
    /\ requests' = requests \ {r}
    /\ ran("settle", [call |-> r, reply |-> reply])
    /\ isProcessing' = FALSE
    /\ IF reply.kind = "throw"
       THEN /\ error' = errorMessage(reply.message)
            /\ UNCHANGED resultImage
       ELSE LET parts == replyParts(reply)
                i == firstInline(parts)
            IN  IF i # 0
                THEN /\ resultImage' = resultURL(parts[i])
                     /\ UNCHANGED error
                ELSE /\ error' = errorMessage(NoImageMessage)
                     /\ UNCHANGED resultImage
    /\ UNCHANGED <<sourceImage, reads, nFiles, nRequests>>

\* reset without setError(null)
reset_KeepError ==
    /\ sourceImage' = NULL
    /\ resultImage' = NULL
    /\ requests' = supersede(requests)
    /\ reads' = clear(reads)
    /\ ran("reset", NULL)
    /\ UNCHANGED <<error, isProcessing, nFiles, nRequests>>

reset ==
    /\ sourceImage' = NULL
    /\ resultImage' = NULL
    /\ error' = NULL
    /\ requests' = supersede(requests)
    /\ reads' = clear(reads)
    /\ ran("reset", NULL)
    /\ UNCHANGED <<isProcessing, nFiles, nRequests>>

handleFileChange(file) ==
    IF file # NoFile THEN processFile(file) ELSE UNCHANGED vars

onDrop(file) ==
    IF file # NoFile THEN processFile(file) ELSE UNCHANGED vars

(***************************************************************************)
(* What is rendered, hence what the user can trigger                       *)
(***************************************************************************)
\* {!sourceImage ? <upload zone with the file input> : ...}
UploadZone == sourceImage = NULL
\* the button rendered only while no error is shown
RemoveButton_HiddenOnError ==
    sourceImage # NULL /\ resultImage = NULL /\ ~isProcessing /\ error = NULL
\* the button rendered whatever isProcessing is
RemoveButton_NoBusyCheck == sourceImage # NULL /\ resultImage = NULL
\* {!resultImage && !isProcessing && <button onClick={removeBackground}>}
RemoveButton == sourceImage # NULL /\ resultImage = NULL /\ ~isProcessing
\* the "Remove image" button, and "Start New" next to a result
ResetButton == sourceImage # NULL

SelectFile == \E file \in Files \cup {NoFile} : UploadZone /\ handleFileChange(file)
DropFile == \E file \in Files \cup {NoFile} : UploadZone /\ onDrop(file)
FileLoaded == \E rd \in reads : onload(rd)
ClickRemove == RemoveButton /\ removeBackground
CallSettles == \E r \in requests : \E reply \in Replies : settle(r, reply)
ClickReset == ResetButton /\ reset

Next ==
    \/ SelectFile
    \/ DropFile
    \/ FileLoaded
    \/ ClickRemove
    \/ CallSettles
    \/ ClickReset

Spec == Init /\ [][Next]_vars

(***************************************************************************)
(* The handlers invoked directly, in any state                             *)
(***************************************************************************)
IngestFile == \E file \in Files : processFile(file)
StartRemoval == removeBackground
ResetCall == reset

NextCore ==
    \/ IngestFile
    \/ FileLoaded
    \/ StartRemoval
    \/ CallSettles
    \/ ResetCall

SpecCore == Init /\ [][NextCore]_vars

(***************************************************************************)
(* The page, plus removeBackground invoked directly while no image is      *)
(* loaded (the page itself renders no button then)                         *)
(***************************************************************************)
NoSourceCall == UploadZone /\ removeBackground

NextDirect ==
    \/ Next
    \/ NoSourceCall

SpecDirect == Init /\ [][NextDirect]_vars

TypeOK ==
    /\ sourceImage \in {NULL} \cup {DataURL(f) : f \in Files}
    /\ resultImage \in {NULL} \cup {resultURL(InlinePart(d)) : d \in InlineDatas}
    /\ isProcessing \in BOOLEAN
    /\ error \in {NULL, InvalidFileMessage, NoImageMessage, FallbackMessage} \cup ThrownMessages
    /\ nFiles \in 0..MaxFiles
    /\ nRequests \in 0..MaxRequests

(***************************************************************************)
(* Vocabulary of the claims                                                *)
(***************************************************************************)
\* an error record that is shown ({error && ...})
ErrorPresent == error \notin {NULL, ""}
\* an error record left by a removal attempt, not by a rejected file
RemovalFailed == ErrorPresent /\ error # InvalidFileMessage
Idle == sourceImage = NULL /\ resultImage = NULL /\ error = NULL /\ ~isProcessing
Loaded == sourceImage # NULL /\ resultImage = NULL /\ error = NULL /\ ~isProcessing
Succeeded == resultImage # NULL
Failed == RemovalFailed /\ resultImage = NULL

\* indexes of the parts of a reply that carry inline data
InlineIndexes(reply) ==
    IF reply.kind = "response" /\ Len(reply.candidates) > 0
       /\ "parts" \in DOMAIN reply.candidates[1].content
    THEN {i \in 1..Len(reply.candidates[1].content.parts) :
             "inlineData" \in DOMAIN reply.candidates[1].content.parts[i]}
    ELSE {}

(***************************************************************************)
(* C1  A reply to a call that was superseded by reset() or by a newly      *)
(* loaded file changes none of sourceImage, resultImage and error.         *)
(***************************************************************************)
C1_StaleReplyIgnored ==
    [][\A r \in requests : \A reply \in Replies :
          (r.superseded /\ settle(r, reply))
             => UNCHANGED <<sourceImage, resultImage, error>>]_vars

(***************************************************************************)
(* C2  In every reachable state at most one model call is outstanding.     *)
(***************************************************************************)
C2_AtMostOneOutstanding == Cardinality(requests) <= 1

\* a superseded call is still outstanding while a new image is loaded and
\* waiting
C2_Witness ==
    /\ Cardinality(requests) = 1
    /\ \E r \in requests : r.superseded /\ r.src # sourceImage
    /\ sourceImage # NULL
    /\ resultImage = NULL
    /\ nRequests < MaxRequests

(***************************************************************************)
(* C3  removeBackground called while isProcessing is true issues no model  *)
(* call and leaves sourceImage, resultImage, error, isProcessing unchanged.*)
(***************************************************************************)
C3_ReentrantNoOp ==
    [][(isProcessing /\ removeBackground) => UNCHANGED <<requests, view>>]_vars

(***************************************************************************)
(* C4  Whenever a result is present or a removal failure is recorded, a    *)
(* source image is present.                                                *)
(***************************************************************************)
C4_SourcePresent ==
    (Succeeded \/ Failed) => sourceImage # NULL

(***************************************************************************)
(* C5  processFile of a file whose type is not an image type sets only the *)
(* error record: sourceImage, resultImage and isProcessing are unchanged,  *)
(* no read is started, and no read or source image ever stems from such a  *)
(* file.                                                                   *)
(***************************************************************************)
NonImageTypes == {"text/plain", ""}

NoAssetFromNonImage ==
    /\ \A rd \in reads : rd.file.type \notin NonImageTypes
    /\ sourceImage \notin {DataURL(f) : f \in {g \in Files : g.type \in NonImageTypes}}

C5_NonImageRejected ==
    /\ NoAssetFromNonImage
    /\ [][/\ NoAssetFromNonImage'
          /\ \A f \in Files :
                (f.type \in NonImageTypes /\ processFile(f))
                   => /\ error' = InvalidFileMessage
                      /\ UNCHANGED <<sourceImage, resultImage, isProcessing, reads>>]_vars

\* a non-image file was handed over while a result was shown and a call was
\* recorded as failed: only the error record differs from what was found
C5_Witness ==
    /\ last.op = "processFile"
    /\ last.arg.type \in NonImageTypes
    /\ error = InvalidFileMessage
    /\ resultImage # NULL
    /\ <<sourceImage, resultImage, isProcessing>> = <<last.pre[1], last.pre[2], last.pre[3]>>
    /\ last.pre[4] = NULL

(***************************************************************************)
(* C6  When the read of a valid image completes the state is Loaded: the   *)
(* new source image is set, no result, no error, nothing in progress.      *)
(***************************************************************************)
C6_IngestEndsLoaded ==
    [][\A rd \in reads :
          onload(rd) => (sourceImage' = DataURL(rd.file) /\ Loaded')]_vars

(***************************************************************************)
(* C7  reset() in Succeeded or Failed yields exactly Idle.                 *)
(***************************************************************************)
C7_ResetToIdle ==
    [][((Succeeded \/ Failed) /\ reset) => Idle']_vars

\* Idle right after a reset that found a removal failure recorded
C7_Witness ==
    /\ last.op = "reset"
    /\ last.pre[2] = NULL
    /\ last.pre[4] \in {NoImageMessage, FallbackMessage}
    /\ Idle

(***************************************************************************)
(* C8  reset() while a call is in flight leaves isProcessing false.        *)
(***************************************************************************)
C8_ResetStopsProcessing ==
    [][(isProcessing /\ reset) => ~isProcessing']_vars

(***************************************************************************)
(* C9  A call that was not superseded and whose reply has an inline-data   *)
(* part ends in Succeeded: resultImage is the PNG data URL of the FIRST    *)
(* such part, error is absent, isProcessing is false, the source is kept.  *)
(***************************************************************************)
FirstInlineData(reply) ==
    LET ps == reply.candidates[1].content.parts
        i == CHOOSE k \in InlineIndexes(reply) : \A j \in InlineIndexes(reply) : k <= j
    IN  ps[i].inlineData.data

\* the step is the settling of a call; settle records the call and its reply
\* in last, so they need not be searched for
Settling == last'.op = "settle" /\ settle(last'.arg.call, last'.arg.reply)
SettledCall == last'.arg.call
SettledReply == last'.arg.reply

C9_FirstInlineWins ==
    [][(Settling /\ ~SettledCall.superseded /\ InlineIndexes(SettledReply) # {})
          => /\ resultImage' = "data:image/png;base64," \o FirstInlineData(SettledReply)
             /\ error' = NULL
             /\ ~isProcessing'
             /\ sourceImage' = SettledCall.src]_vars

\* the reply held text, then two different inline parts; the first one is shown
C9_Witness ==
    /\ last.op = "settle"
    /\ ~last.arg.call.superseded
    /\ last.arg.reply.kind = "response"
    /\ InlineIndexes(last.arg.reply) = {2, 3}
    /\ last.arg.reply.candidates[1].content.parts[2].inlineData.data = "R0lG"
    /\ last.arg.reply.candidates[1].content.parts[3].inlineData.data = "UE5H"
    /\ resultImage = "data:image/png;base64,R0lG"
    /\ error = NULL
    /\ ~isProcessing

(***************************************************************************)
(* C10  A call that was not superseded and that fails, or whose reply has  *)
(* no inline-data part, ends in Failed: an error is shown, resultImage     *)
(* stays absent, the source is kept and isProcessing is false.             *)
(***************************************************************************)
C10_NoImageFails ==
    [][(Settling /\ ~SettledCall.superseded /\ InlineIndexes(SettledReply) = {})
          => /\ ErrorPresent'
             /\ resultImage' = NULL
             /\ sourceImage' = SettledCall.src
             /\ sourceImage' # NULL
             /\ ~isProcessing']_vars

\* the call was rejected with an error that carries no message
C10_Witness ==
    /\ last.op = "settle"
    /\ ~last.arg.call.superseded
    /\ last.arg.reply.kind = "throw"
    /\ last.arg.reply.message = ""
    /\ error = FallbackMessage
    /\ resultImage = NULL
    /\ sourceImage # NULL
    /\ ~isProcessing


(***************************************************************************)
(* C11  A call in flight stays in flight until it settles (nothing aborts  *)
(* it).  Whatever the outcome, the settling step leaves isProcessing false *)
(* and writes exactly one of resultImage and error: a result when the      *)
(* reply has an inline-data part, an error otherwise.  isProcessing is     *)
(* never true with no call in flight.                                      *)
(***************************************************************************)
CallIds(reqs) == {r.id : r \in reqs}

C11_CallRecovered ==
    /\ isProcessing => requests # {}
    /\ [][/\ isProcessing' => requests' # {}
          /\ \A r \in requests :
                \/ r.id \in CallIds(requests')
                \/ Settling /\ SettledCall = r
          /\ Settling
                => /\ ~isProcessing'
                   /\ IF InlineIndexes(SettledReply) # {}
                      THEN resultImage' # NULL /\ UNCHANGED error
                      ELSE ErrorPresent' /\ UNCHANGED resultImage]_vars

\* a call that was rejected has been answered: nothing is in flight, nothing
\* is in progress, only the error was written
C11_Witness ==
    /\ last.op = "settle"
    /\ last.arg.reply.kind = "throw"
    /\ last.pre[3] = TRUE
    /\ ~isProcessing
    /\ requests = {}
    /\ ErrorPresent
    /\ resultImage = last.pre[2]


(***************************************************************************)
(* C12  Once a result or a removal failure is shown for a loaded image,    *)
(* sourceImage, resultImage and error change only by a step the user       *)
(* triggers (choosing a file, Remove Background, reset).                   *)
(***************************************************************************)
C12_OutcomeStable ==
    [][((Succeeded \/ Failed) /\ sourceImage # NULL /\ ~isProcessing)
          => \/ UNCHANGED <<sourceImage, resultImage, error>>
             \/ SelectFile \/ DropFile \/ ClickRemove \/ ClickReset]_vars

(***************************************************************************)
(* C13  The request of every call has exactly two parts, in this order:    *)
(* the inline image with the base64 data and the media type of the loaded  *)
(* file, then the fixed instruction text.                                  *)
(***************************************************************************)
RequestFor(file) ==
    << [inlineData |-> [data |-> Base64(file.body), mimeType |-> file.type]],
       [text |-> Instruction] >>

C13_RequestShape ==
    \A r \in requests :
        \E file \in Files :
            /\ r.src = DataURL(file)
            /\ Len(r.request.parts) = 2
            /\ r.request.parts = RequestFor(file)

\* a call for a loaded JPEG is in flight
C13_Witness ==
    \E r \in requests :
        /\ r.src = sourceImage
        /\ r.request.parts[1].inlineData = [data |-> "aGk=", mimeType |-> "image/jpeg"]
        /\ r.request.parts[2].text = Instruction

(***************************************************************************)
(* C14  With a removal failure shown for a loaded image the Remove         *)
(* Background button is offered; clicking it clears the error, sets        *)
(* isProcessing and issues exactly one new call for the same image.  No    *)
(* other step ever issues a call.                                          *)
(***************************************************************************)
C14_RetryFromFailed ==
    [][/\ (Failed /\ sourceImage # NULL /\ ~isProcessing)' => RemoveButton'
       /\ (Failed /\ sourceImage # NULL /\ ~isProcessing /\ ClickRemove)
             => /\ error' = NULL
                /\ isProcessing'
                /\ UNCHANGED <<sourceImage, resultImage>>
                /\ \E r \in requests' :
                      /\ requests' = requests \cup {r}
                      /\ r \notin requests
                      /\ r.src = sourceImage
       /\ (CallIds(requests') \ CallIds(requests) # {}) => ClickRemove]_vars

\* a second call is in flight for the image whose first call failed
C14_Witness ==
    /\ last.op = "removeBackground"
    /\ last.pre[4] \in {NoImageMessage, FallbackMessage, "fetch failed"}
    /\ last.pre[1] = sourceImage
    /\ error = NULL
    /\ isProcessing
    /\ nRequests = 2
    /\ \E r \in requests : requests = {r} /\ r.src = sourceImage /\ ~r.superseded

(***************************************************************************)
(* C15  resultImage and error are never both present.                      *)
(***************************************************************************)
C15_ResultXorError ==
    ~(resultImage # NULL /\ error # NULL)


(***************************************************************************)
(* C16  When a file is chosen while the read of an earlier file is still   *)
(* pending and the later file's read completes first, sourceImage is still *)
(* the later file's image after the earlier read has completed too.        *)
(***************************************************************************)
C16_LaterIngestWins ==
    [][\A rd \in reads :
          (rd.newer.id # 0 /\ ~rd.cleared /\ onload(rd))
             => sourceImage' = DataURL(rd.newer.file)]_vars

(***************************************************************************)
(* C17  A read that was started before reset() and completes after it      *)
(* does not install a source image.                                        *)
(***************************************************************************)
C17_ResetDropsPendingReads ==
    [][\A rd \in reads :
          (rd.cleared /\ onload(rd)) => UNCHANGED sourceImage]_vars


(***************************************************************************)
(* C18  removeBackground called with no source image issues no model call  *)
(* and leaves isProcessing, error and resultImage (and sourceImage)        *)
(* unchanged.                                                              *)
(***************************************************************************)
C18_NoSourceNoOp ==
    [][(sourceImage = NULL /\ removeBackground)
          => UNCHANGED <<requests, nRequests, view>>]_vars

\* called with no image loaded and an invalid-file error shown: the error is
\* still shown and no call was issued
C18_Witness ==
    /\ last.op = "removeBackground"
    /\ last.pre[1] = NULL
    /\ last.pre[4] = InvalidFileMessage
    /\ view = last.pre
    /\ requests = {}
    /\ nRequests = 0

====
